---------------------------- MODULE Spec2Model ----------------------------
(***************************************************************************)
(* Model of hls_vi_historical/main.py: the granule pipeline (resolve the   *)
(* sources of a granule, fetch the missing ones concurrently, sanitize the *)
(* CMR XML, run the generators, upload the outputs and the manifest).      *)
(*                                                                         *)
(* Python strings are sequences of one-character strings, so that          *)
(* startswith, rfind, split, replace and slicing are computed as the code  *)
(* computes them.                                                          *)
(***************************************************************************)
EXTENDS Integers, Sequences, FiniteSets, TLC

(***************************************************************************)
(* Bounds of the model.                                                    *)
(***************************************************************************)
\* hardware threads of the machine (os.cpu_count())
Cpus == 1
\* longest sources sequence handed to download_files by the test harness
MaxSrcs == 3
\* number of download_files calls the harness makes on one directory
MaxCalls == 2
\* number of pipeline runs (main) on one scratch directory
MaxRuns == 2

(***************************************************************************)
(* The worker pool of ThreadPoolExecutor(): no max_workers is given, so    *)
(* the pool has min(32, (os.cpu_count() or 1) + 4) threads.                *)
(***************************************************************************)
PoolCap == 32
PoolExtra == 4
MaxWorkers == IF Cpus + PoolExtra < PoolCap THEN Cpus + PoolExtra ELSE PoolCap

(***************************************************************************)
(* String helpers (Python str methods).                                    *)
(***************************************************************************)
\* s.startswith(p)
StartsWith(s, p) ==
    /\ Len(s) >= Len(p)
    /\ SubSeq(s, 1, Len(p)) = p

\* s.rfind(c) for a one-character c, as a 1-based position; 0 when absent
\* (Python's 0-based result plus one, so that -1 becomes 0)
RFind(s, c) ==
    LET hits == {i \in 1..Len(s) : s[i] = c}
    IN  IF hits = {} THEN 0 ELSE CHOOSE i \in hits : \A j \in hits : j <= i

\* s.find(p) as a 1-based position; 0 when absent
Find(s, p) ==
    LET hits == {i \in 1..(Len(s) - Len(p) + 1) : SubSeq(s, i, i + Len(p) - 1) = p}
    IN  IF hits = {} THEN 0 ELSE CHOOSE i \in hits : \A j \in hits : i <= j

\* s.replace(old, new, 1): only the first occurrence is replaced
ReplaceFirst(s, old, new) ==
    LET i == Find(s, old)
    IN  IF i = 0 THEN s
        ELSE SubSeq(s, 1, i - 1) \o new \o SubSeq(s, i + Len(old), Len(s))

\* s.split(c) for a one-character c: the sequence of fields
RECURSIVE Split(_, _)
Split(s, c) ==
    LET hits == {i \in 1..Len(s) : s[i] = c}
    IN  IF hits = {} THEN <<s>>
        ELSE LET i == CHOOSE k \in hits : \A j \in hits : k <= j
             IN  <<SubSeq(s, 1, i - 1)>> \o Split(SubSeq(s, i + 1, Len(s)), c)

\* s.replace(old, new): every occurrence is replaced
RECURSIVE ReplaceAll(_, _, _)
ReplaceAll(s, old, new) ==
    LET i == Find(s, old)
    IN  IF i = 0 THEN s
        ELSE SubSeq(s, 1, i - 1) \o new
                 \o ReplaceAll(SubSeq(s, i + Len(old), Len(s)), old, new)

\* s[:n]
Take(s, n) == SubSeq(s, 1, IF n < Len(s) THEN n ELSE Len(s))

\* the range of a sequence
Range(q) == {q[i] : i \in 1..Len(q)}

(***************************************************************************)
(* String constants of the program.                                        *)
(***************************************************************************)
Slash == <<"/">>
Dot == <<".">>
HLS == <<"H", "L", "S">>
HLS_VI == <<"H", "L", "S", "-", "V", "I">>
HLS_L30 == <<"H", "L", "S", ".", "L", "3", "0">>
PublicBucket == <<"l", "p", "-", "p", "r", "o", "d", "-", "p", "u", "b", "l", "i", "c">>
ProtectedBucket == <<"l", "p", "-", "p", "r", "o", "d", "-", "p", "r", "o", "t", "e", "c", "t", "e", "d">>
CollectionL == <<"H", "L", "S", "L", "3", "0", ".", "0", "2", "0">>
CollectionS == <<"H", "L", "S", "S", "3", "0", ".", "0", "2", "0">>
JpgSuffix == <<".", "j", "p", "g">>
TifSuffix == <<".", "t", "i", "f">>
FmaskSuffix == <<".", "F", "m", "a", "s", "k", ".", "t", "i", "f">>
CmrSuffix == <<".", "c", "m", "r", ".", "x", "m", "l">>

\* the member names of the hls_vi band enumerations, in declaration order
L30Band == << <<"B", "0", "2">>, <<"B", "0", "3">>, <<"B", "0", "4">>, <<"B", "0", "5">>, <<"B", "0", "6">>, <<"B", "0", "7">> >>
S30Band == << <<"B", "0", "2">>, <<"B", "0", "3">>, <<"B", "0", "4">>, <<"B", "8", "A">>, <<"B", "1", "1">>, <<"B", "1", "2">> >>

(***************************************************************************)
(* granule_sources: the (bucket, key) pairs of the HLS files of a granule. *)
(* Nothing is validated: every identifier that does not start with        *)
(* "HLS.L30" takes the S30 branch.                                         *)
(***************************************************************************)
\* a suffix tuple without the Fmask (mutation)
SuffixesNoFmask(bands) ==
    [i \in 1..Len(bands) |-> Dot \o bands[i] \o TifSuffix] \o <<CmrSuffix>>

\* (*(f".{band.name}.tif" for band in bands), ".Fmask.tif", ".cmr.xml")
Suffixes(bands) ==
    [i \in 1..Len(bands) |-> Dot \o bands[i] \o TifSuffix] \o <<FmaskSuffix, CmrSuffix>>

\* a granule_sources that emits cmr.xml before Fmask (mutation of the suffix order)
granule_sources_swapped(granule_id) ==
    LET is_l30 == StartsWith(granule_id, HLS_L30)
        collection == IF is_l30 THEN CollectionL ELSE CollectionS
        bands == IF is_l30 THEN L30Band ELSE S30Band
        suffixes == [i \in 1..Len(bands) |-> Dot \o bands[i] \o TifSuffix]
                        \o <<CmrSuffix, FmaskSuffix>>
        dir == collection \o Slash \o granule_id \o Slash \o granule_id
    IN  <<  <<PublicBucket, dir \o JpgSuffix>>  >>
            \o [i \in 1..Len(suffixes) |-> <<ProtectedBucket, dir \o suffixes[i]>>]

granule_sources(granule_id) ==
    LET is_l30 == StartsWith(granule_id, HLS_L30)
        collection == IF is_l30 THEN CollectionL ELSE CollectionS
        bands == IF is_l30 THEN L30Band ELSE S30Band
        suffixes == Suffixes(bands)
        dir == collection \o Slash \o granule_id \o Slash \o granule_id
    IN  <<  <<PublicBucket, dir \o JpgSuffix>>  >>
            \o [i \in 1..Len(suffixes) |-> <<ProtectedBucket, dir \o suffixes[i]>>]


(***************************************************************************)
(* Paths (pathlib.Path), as strings.                                       *)
(***************************************************************************)
\* the process's working directory, which Path.absolute() prepends
Cwd == <<"/", "w">>

\* a basename that cuts at the first "/" instead of the last (mutation)
basename_first(key) ==
    LET i == Find(key, Slash)
    IN  SubSeq(key, i + 1, Len(key))

\* key[key.rfind("/") + 1 :]
basename(key) == SubSeq(key, RFind(key, "/") + 1, Len(key))

\* dir / name: an empty name gives dir, an absolute name replaces dir
PathJoin(dir, name) ==
    IF name = <<>> THEN dir
    ELSE IF name[1] = "/" THEN name
    ELSE dir \o Slash \o name

\* Path.absolute(): an absolute path is kept, a relative one is put under Cwd
Absolute(p) == IF p # <<>> /\ p[1] = "/" THEN p ELSE PathJoin(Cwd, p)

\* file contents on the local disk
NoSrc == << <<>>, <<>> >>
OldFile == [kind |-> "old", src |-> NoSrc]
Directory == [kind |-> "dir", src |-> NoSrc]
Object(src) == [kind |-> "object", src |-> src]

\* what download_files returns before it has returned
NoResult == << <<"-">>, <<"-">> >>

VARIABLES
    granule_id,   \* GRANULE_ID of the pipeline run
    debug,        \* whether DEBUG_BUCKET is set
    run,          \* number of the pipeline run on this scratch directory
    pc,           \* position of the calling (main) thread
    dst_dir,      \* download_files: dst_dir
    srcs,         \* download_files: srcs
    missing,      \* download_files: missing, a sequence of <<src, dst>>
    task,         \* state of the future of each missing source
    firstErr,     \* index of the fetch task that failed first in time, or 0
    err,          \* index of the fetch task whose error the caller got, or 0
    result,       \* what download_files returned
    disk,         \* local files: path -> contents
    disk0,        \* the local files when download_files was called
    nfetch,       \* downloader invocations of the current download_files call
    flaky,        \* the sources whose fetch can fail
    calls,        \* download_files calls made so far by the harness
    prev,         \* how the previous download_files call of the harness ended
    key_prefix,   \* upload_outputs: key_prefix
    listing,      \* upload_outputs: files of output_dir.iterdir() not yet visited
    puts,         \* the put_object calls of the current run, in order
    bucket,       \* the output store: <<bucket, key>> -> what was put
    sanitized,    \* paths handed to strip_metadata_urls in the current run
    trace         \* the stage events of the current run, in order

vars == <<granule_id, debug, run, pc, dst_dir, srcs, missing, task, firstErr, err,
          result, disk, disk0, nfetch, flaky, calls, prev, key_prefix, listing,
          puts, bucket, sanitized, trace>>

pipelineVars == <<granule_id, debug, run, key_prefix, listing, puts, bucket, sanitized>>

(***************************************************************************)
(* download_files.                                                         *)
(***************************************************************************)
Exists(fs, p) == Absolute(p) \in DOMAIN fs

\* dsts = [(dst_dir / src_name).absolute() for src_name in src_names]
Dsts(ss, dir) == [i \in 1..Len(ss) |-> Absolute(PathJoin(dir, basename(ss[i][2])))]

\* a missing list that keeps every source, present or not (mutation)
MissingAll(ss, dir, fs) ==
    [i \in 1..Len(ss) |-> <<ss[i], Dsts(ss, dir)[i]>>]

\* a missing list with the test inverted: the pairs whose dst exists (mutation)
MissingPresent(ss, dir, fs) ==
    LET pairs == [i \in 1..Len(ss) |-> <<ss[i], Dsts(ss, dir)[i]>>]
        present(pr) == pr[2] \in DOMAIN fs
    IN  SelectSeq(pairs, present)

\* missing = [(src, dst) for src, dst in zip(srcs, dsts) if not dst.exists()]
Missing(ss, dir, fs) ==
    LET pairs == [i \in 1..Len(ss) |-> <<ss[i], Dsts(ss, dir)[i]>>]
        absent(pr) == pr[2] \notin DOMAIN fs
    IN  SelectSeq(pairs, absent)

\* missing_srcs, missing_dsts = zip(*missing) if missing else ([], [])
Unzip(ms) == << [i \in 1..Len(ms) |-> ms[i][1]], [i \in 1..Len(ms) |-> ms[i][2]] >>

Running == {i \in DOMAIN task : task[i] = "running"}
Pending == {i \in DOMAIN task : task[i] = "pending"}
Failed == {i \in DOMAIN task : task[i] = "failed"}

\* download_files is entered: the partition is computed and executor.map submits
\* one future per missing source
DownloadFilesCall ==
    /\ pc = "call_df"
    /\ missing' = Missing(srcs, dst_dir, disk)
    /\ task' = [i \in 1..Len(missing') |-> "pending"]
    /\ firstErr' = 0
    /\ err' = 0
    /\ nfetch' = 0
    /\ result' = NoResult
    /\ disk0' = disk
    /\ pc' = "df_join"
    /\ UNCHANGED <<dst_dir, srcs, disk, flaky, calls, prev, trace>>
    /\ UNCHANGED pipelineVars

\* a pool that starts a thread for every work item (mutation)
PoolUnbounded == TRUE

\* whether the pool has an idle thread, or may still start one
PoolHasWorker == Cardinality(Running) < MaxWorkers

\* a worker thread takes the next work item of the queue (FIFO) and calls the
\* downloader; at most MaxWorkers threads exist
TaskStart(i) ==
    /\ pc \in {"df_join", "df_shutdown"}
    /\ task[i] = "pending"
    /\ \A j \in Pending : i <= j
    /\ PoolHasWorker
    /\ task' = [task EXCEPT ![i] = "running"]
    /\ nfetch' = nfetch + 1
    /\ UNCHANGED <<pc, dst_dir, srcs, missing, firstErr, err, result, disk, disk0,
                   flaky, calls, prev, trace>>
    /\ UNCHANGED pipelineVars

\* the downloader returns: the object is at its local path
TaskOk(i) ==
    /\ task[i] = "running"
    /\ task' = [task EXCEPT ![i] = "done"]
    /\ disk' = [p \in DOMAIN disk \cup {missing[i][2]} |->
                   IF p = missing[i][2] THEN Object(missing[i][1]) ELSE disk[p]]
    /\ UNCHANGED <<pc, dst_dir, srcs, missing, firstErr, err, result, disk0, nfetch,
                   flaky, calls, prev, trace>>
    /\ UNCHANGED pipelineVars

\* the downloader raises
TaskFail(i) ==
    /\ task[i] = "running"
    /\ missing[i][1] \in flaky
    /\ task' = [task EXCEPT ![i] = "failed"]
    /\ firstErr' = IF firstErr = 0 THEN i ELSE firstErr
    /\ UNCHANGED <<pc, dst_dir, srcs, missing, err, result, disk, disk0, nfetch,
                   flaky, calls, prev, trace>>
    /\ UNCHANGED pipelineVars

\* a join that re-raises the failure that happened first in time (mutation)
RaiserFirstInTime == {i \in Failed : i = firstErr}

\* the future whose exception list(executor.map(...)) re-raises: results are taken
\* in input order, so it is the failed future that every earlier one finished before
Raiser == {i \in Failed : \A j \in 1..(i - 1) : task[j] = "done"}

\* list(...) re-raises the exception of a future; the iterator's finally cancels
\* the futures that have not started
JoinCancel ==
    /\ pc = "df_join"
    /\ \E i \in Raiser :
          /\ err' = i
          /\ task' = [j \in DOMAIN task |->
                         IF task[j] = "pending" THEN "cancelled" ELSE task[j]]
    /\ pc' = "df_shutdown"
    /\ UNCHANGED <<dst_dir, srcs, missing, firstErr, result, disk, disk0, nfetch,
                   flaky, calls, prev, trace>>
    /\ UNCHANGED pipelineVars

\* whether the executor's shutdown(wait=True) has joined every worker thread
Joined == Running = {}

\* the with block ends (shutdown joins the threads) and the exception leaves
\* download_files
DownloadFilesRaise ==
    /\ pc = "df_shutdown"
    /\ Joined
    /\ pc' = "df_raised"
    /\ trace' = Append(trace, "error")
    /\ UNCHANGED <<dst_dir, srcs, missing, task, firstErr, err, result, disk, disk0,
                   nfetch, flaky, calls, prev>>
    /\ UNCHANGED pipelineVars

\* a join that only waits until no download is running (mutation)
AllTakenNoWait == \A i \in DOMAIN task : task[i] # "running"

\* whether list(executor.map(...)) has taken the result of every future
AllTaken == \A i \in DOMAIN task : task[i] = "done"

\* every future gave its result: download_files returns the missing pairs
DownloadFilesReturn ==
    /\ pc = "df_join"
    /\ AllTaken
    /\ result' = Unzip(missing)
    /\ pc' = "df_returned"
    /\ trace' = Append(trace, "transfer")
    /\ UNCHANGED <<dst_dir, srcs, missing, task, firstErr, err, disk, disk0, nfetch,
                   flaky, calls, prev>>
    /\ UNCHANGED pipelineVars

(***************************************************************************)
(* A caller of download_files alone: any short sources sequence over a few *)
(* objects (two keys share the basename x, one key has no "/", one ends in *)
(* "/"), a destination directory holding any of the files beforehand, and  *)
(* a downloader that can fail on any object.  The caller calls again with  *)
(* the same arguments.                                                     *)
(***************************************************************************)
HarnessDir == <<"/", "d">>
SrcAX == << <<"b">>, <<"a", "/", "x">> >>
SrcCX == << <<"p">>, <<"c", "/", "e", "/", "x">> >>
SrcY == << <<"b">>, <<"y">> >>
SrcSlash == << <<"b">>, <<"a", "/">> >>
HarnessSources == {SrcAX, SrcCX, SrcY, SrcSlash}
HarnessFiles == {PathJoin(HarnessDir, <<"x">>), PathJoin(HarnessDir, <<"y">>)}

SeqsUpTo(S, n) == UNION {[1..k -> S] : k \in 0..n}

InitT ==
    /\ srcs \in SeqsUpTo(HarnessSources, MaxSrcs)
    /\ dst_dir = HarnessDir
    /\ \E present \in SUBSET HarnessFiles :
          disk = [p \in present \cup {HarnessDir} |->
                     IF p = HarnessDir THEN Directory ELSE OldFile]
    /\ disk0 = disk
    /\ flaky = HarnessSources
    /\ pc = "call_df"
    /\ calls = 1
    /\ prev = "none"
    /\ missing = <<>>
    /\ task = <<>>
    /\ firstErr = 0
    /\ err = 0
    /\ nfetch = 0
    /\ result = NoResult
    /\ granule_id = <<>>
    /\ debug = FALSE
    /\ run = 0
    /\ key_prefix = <<>>
    /\ listing = {}
    /\ puts = <<>>
    /\ bucket = <<>>
    /\ sanitized = {}
    /\ trace = <<>>

\* the caller calls download_files again with the same sources and directory
CallAgain ==
    /\ pc \in {"df_returned", "df_raised"}
    /\ calls < MaxCalls
    /\ calls' = calls + 1
    /\ prev' = pc
    /\ pc' = "call_df"
    /\ trace' = <<>>
    /\ UNCHANGED <<dst_dir, srcs, missing, task, firstErr, err, result, disk, disk0,
                   nfetch, flaky>>
    /\ UNCHANGED pipelineVars

NextT ==
    \/ DownloadFilesCall
    \/ \E i \in DOMAIN task : TaskStart(i)
    \/ \E i \in DOMAIN task : TaskOk(i)
    \/ \E i \in DOMAIN task : TaskFail(i)
    \/ JoinCancel
    \/ DownloadFilesRaise
    \/ DownloadFilesReturn
    \/ CallAgain

SpecT == InitT /\ [][NextT]_vars


(***************************************************************************)
(* GranuleId.from_string (package hls_vi), as the specification states it: *)
(* the identifier is split on "."; at least five fields; the first is the  *)
(* literal HLS and the second one of the two instruments.                  *)
(***************************************************************************)
L30 == <<"L", "3", "0">>
S30 == <<"S", "3", "0">>

IsValidGranuleId(s) ==
    LET f == Split(s, ".")
    IN  /\ Len(f) >= 5
        /\ f[1] = HLS
        /\ f[2] \in {L30, S30}

\* id_.instrument.name
InstrumentName(s) == Split(s, ".")[2]

\* id_.acquisition_date
AcquisitionDate(s) == Split(s, ".")[4]

(***************************************************************************)
(* output_key_prefix, create_outputs and create_manifest names.            *)
(***************************************************************************)
\* a replace without the count: every "HLS" becomes "HLS-VI" (mutation)
ViGranuleIdAll(granule) == ReplaceAll(granule, HLS, HLS_VI)

\* granule_id.replace("HLS", "HLS-VI", 1)
ViGranuleId(granule) == ReplaceFirst(granule, HLS, HLS_VI)

\* f"{id_.instrument.name}_VI/data/{yyyyddd}/{vi_granule_id}", for an identifier
\* that GranuleId.from_string accepts
output_key_prefix(granule) ==
    InstrumentName(granule) \o <<"_", "V", "I", "/", "d", "a", "t", "a", "/">> \o Take(AcquisitionDate(granule), 7)
        \o Slash \o ViGranuleId(granule)

\* collection_suffix, *_, vi_granule_id = key_prefix.split("/");
\* manifest_filename = f"{vi_granule_id}.json"
ManifestFilename(prefix) ==
    LET f == Split(prefix, "/")
    IN  f[Len(f)] \o <<".", "j", "s", "o", "n">>

\* a key without the prefix (mutation)
UploadKeyFlat(prefix, name) == name

\* key = f"{key_prefix}/{src.name}"
UploadKey(prefix, name) == prefix \o Slash \o name

\* acl = "public-read" if debug else "private"
Acl(dbg) == IF dbg THEN "public-read" ELSE "private"

\* an output bucket that ignores DEBUG_BUCKET (mutation)
NormalBucketOnly(dbg) == "OUTPUT_BUCKET"

\* os.environ.get("DEBUG_BUCKET", os.environ["OUTPUT_BUCKET"])
OutputBucketName(dbg) == IF dbg THEN "DEBUG_BUCKET" ELSE "OUTPUT_BUCKET"

(***************************************************************************)
(* The scratch directories of main.                                        *)
(***************************************************************************)
JobId == <<"j", "1">>
WorkingDir == PathJoin(<<"/", "v", "a", "r", "/", "s", "c", "r", "a", "t", "c", "h">>, JobId)
InputDir == PathJoin(WorkingDir, <<"h", "l", "s">>)
OutputDir == PathJoin(WorkingDir, <<"h", "l", "s", "-", "v", "i">>)

\* the directory part of a path
Parent(p) == SubSeq(p, 1, RFind(p, "/") - 1)

\* an iterdir that lists nothing but the rasters (mutation)
IterdirTifOnly(fs, dir) ==
    {p \in DOMAIN fs : Parent(p) = dir /\ Find(p, TifSuffix) # 0}

\* output_dir.iterdir(): the entries directly in dir
Iterdir(fs, dir) == {p \in DOMAIN fs : Parent(p) = dir}

\* files written to the disk: fs with path p holding contents c
WriteFile(fs, p, c) == [q \in DOMAIN fs \cup {p} |-> IF q = p THEN c ELSE fs[q]]

Generated(kind, r) == [kind |-> kind, src |-> <<r>>]

\* the names the raster generator writes for a granule (two of its indices)
RasterNames(granule) ==
    {ViGranuleId(granule) \o <<".", "N", "D", "V", "I", ".", "t", "i", "f">>, ViGranuleId(granule) \o <<".", "E", "V", "I", ".", "t", "i", "f">>}
ViCmrName(granule) == ViGranuleId(granule) \o CmrSuffix
ViStacName(granule) == ViGranuleId(granule) \o <<"_", "s", "t", "a", "c", ".", "j", "s", "o", "n">>

\* the path of the VI metadata taken for the path of the HLS metadata (mutation)
HlsCmrPathViName(dir, granule) == PathJoin(dir, ViGranuleId(granule) \o CmrSuffix)

\* dst_dir / f"{granule_id}.cmr.xml"
HlsCmrPath(dir, granule) == PathJoin(dir, granule \o CmrSuffix)

(***************************************************************************)
(* The pipeline run (main).                                                *)
(***************************************************************************)
ExampleL30 == <<"H", "L", "S", ".", "L", "3", "0", ".", "T", "5", "8", "U", "F", "F", ".", "2", "0", "2", "5", "1", "0", "5", "T", "2", "3", "4", "9", "5", "1", ".", "v", "2", ".", "0">>
ExampleS30 == <<"H", "L", "S", ".", "S", "3", "0", ".", "T", "5", "9", "V", "N", "H", ".", "2", "0", "2", "5", "1", "0", "5", "T", "2", "3", "4", "6", "4", "1", ".", "v", "2", ".", "0">>
UnknownInstrument == <<"H", "L", "S", ".", "X", "3", "0", ".", "T", "5", "8", "U", "F", "F", ".", "2", "0", "2", "5", "1", "0", "5", "T", "2", "3", "4", "9", "5", "1", ".", "v", "2", ".", "0">>
PipelineGranules == {ExampleL30, ExampleS30, UnknownInstrument}

EndsWith(s, suf) ==
    /\ Len(s) >= Len(suf)
    /\ SubSeq(s, Len(s) - Len(suf) + 1, Len(s)) = suf

\* the downloads that can fail in a pipeline run: none, one band, or a band and
\* the metadata
FlakySuffixes == { {}, {<<".", "B", "0", "3", ".", "t", "i", "f">>}, {<<".", "B", "0", "2", ".", "t", "i", "f">>, CmrSuffix} }

Init ==
    /\ granule_id \in PipelineGranules
    /\ debug \in BOOLEAN
    /\ \E sufs \in FlakySuffixes :
          flaky = {s \in Range(granule_sources(granule_id)) :
                      \E suf \in sufs : EndsWith(s[2], suf)}
    /\ run = 0
    /\ pc = "main"
    /\ dst_dir = <<>>
    /\ srcs = <<>>
    /\ missing = <<>>
    /\ task = <<>>
    /\ firstErr = 0
    /\ err = 0
    /\ result = NoResult
    /\ disk = <<>>
    /\ disk0 = <<>>
    /\ nfetch = 0
    /\ calls = 0
    /\ prev = "none"
    /\ key_prefix = <<>>
    /\ listing = {}
    /\ puts = <<>>
    /\ bucket = <<>>
    /\ sanitized = {}
    /\ trace = <<>>

transferVars == <<dst_dir, srcs, missing, task, firstErr, err, result, disk0, nfetch,
                  flaky, calls, prev>>

\* main up to prepare_inputs: the environment is read and the two scratch
\* directories are made (mkdir(parents=True, exist_ok=True))
MainStart ==
    /\ pc = "main"
    /\ run' = run + 1
    /\ disk' = [p \in DOMAIN disk \cup {WorkingDir, InputDir, OutputDir} |->
                   IF p \in DOMAIN disk THEN disk[p] ELSE Directory]
    /\ puts' = <<>>
    /\ sanitized' = {}
    /\ trace' = <<>>
    /\ key_prefix' = <<>>
    /\ listing' = {}
    /\ pc' = "prepare"
    /\ UNCHANGED <<granule_id, debug, bucket>>
    /\ UNCHANGED transferVars

\* prepare_inputs: sources = granule_sources(granule_id), then download_files
PrepareInputs ==
    /\ pc = "prepare"
    /\ srcs' = granule_sources(granule_id)
    /\ dst_dir' = InputDir
    /\ trace' = Append(trace, "resolve")
    /\ pc' = "call_df"
    /\ UNCHANGED <<missing, task, firstErr, err, result, disk, disk0, nfetch, flaky,
                   calls, prev>>
    /\ UNCHANGED pipelineVars

\* strip_metadata_urls(dst_dir / f"{granule_id}.cmr.xml") succeeds: the file is
\* rewritten in place
StripMetadataUrls ==
    /\ pc = "df_returned"
    /\ LET path == Absolute(HlsCmrPath(dst_dir, granule_id))
       IN  /\ path \in DOMAIN disk
           /\ disk' = WriteFile(disk, path, [disk[path] EXCEPT !.kind = "sanitized"])
           /\ sanitized' = sanitized \cup {path}
    /\ trace' = Append(trace, "sanitize")
    /\ pc' = "create_vi"
    /\ UNCHANGED <<granule_id, debug, run, key_prefix, listing, puts, bucket>>
    /\ UNCHANGED transferVars

\* a caller that catches the exception and goes on with the generators (mutation)
AfterErrorSwallowed == "create_vi"

\* where main is after an exception left a stage: it is not caught anywhere
AfterError == "failed"

\* strip_metadata_urls raises (no such file, or XML that cannot be parsed or
\* transformed)
StripMetadataUrlsFail ==
    /\ pc = "df_returned"
    /\ trace' = Append(trace, "error")
    /\ pc' = AfterError
    /\ UNCHANGED <<disk>>
    /\ UNCHANGED pipelineVars
    /\ UNCHANGED transferVars

\* generate_vi_granule(input_dir, output_dir, granule_id) writes the rasters
GenerateViGranule ==
    /\ pc = "create_vi"
    /\ disk' = [p \in DOMAIN disk \cup {PathJoin(OutputDir, n) : n \in RasterNames(granule_id)} |->
                   IF Parent(p) = OutputDir /\ basename(p) \in RasterNames(granule_id)
                   THEN Generated("raster", run) ELSE disk[p]]
    /\ trace' = Append(trace, "raster")
    /\ pc' = "create_meta"
    /\ UNCHANGED pipelineVars
    /\ UNCHANGED transferVars

\* generate_metadata(input_dir, output_dir) writes the VI CMR XML
GenerateMetadata ==
    /\ pc = "create_meta"
    /\ disk' = WriteFile(disk, PathJoin(OutputDir, ViCmrName(granule_id)),
                         Generated("cmr", run))
    /\ trace' = Append(trace, "metadata")
    /\ pc' = "create_stac"
    /\ UNCHANGED pipelineVars
    /\ UNCHANGED transferVars

\* create_item(...) writes the STAC item
CreateItem ==
    /\ pc = "create_stac"
    /\ disk' = WriteFile(disk, PathJoin(OutputDir, ViStacName(granule_id)),
                         Generated("stac", run))
    /\ trace' = Append(trace, "stac")
    /\ pc' = "upload"
    /\ UNCHANGED pipelineVars
    /\ UNCHANGED transferVars

\* one of the three generators raises
GeneratorFail ==
    /\ pc \in {"create_vi", "create_meta", "create_stac"}
    /\ trace' = Append(trace, "error")
    /\ pc' = "failed"
    /\ UNCHANGED <<disk>>
    /\ UNCHANGED pipelineVars
    /\ UNCHANGED transferVars

\* upload_outputs begins: the key prefix is derived and the directory is listed
UploadBegin ==
    /\ pc = "upload"
    /\ IsValidGranuleId(granule_id)
    /\ key_prefix' = output_key_prefix(granule_id)
    /\ listing' = Iterdir(disk, OutputDir)
    /\ pc' = "upload_loop"
    /\ UNCHANGED <<granule_id, debug, run, puts, bucket, sanitized, disk, trace>>
    /\ UNCHANGED transferVars

\* output_key_prefix raises: GranuleId.from_string rejects the identifier
UploadKeyError ==
    /\ pc = "upload"
    /\ ~IsValidGranuleId(granule_id)
    /\ trace' = Append(trace, "error")
    /\ pc' = "failed"
    /\ UNCHANGED <<disk>>
    /\ UNCHANGED pipelineVars
    /\ UNCHANGED transferVars

PutRecord(name, body) ==
    [bucket |-> OutputBucketName(debug), key |-> UploadKey(key_prefix, name),
     acl |-> Acl(debug), body |-> body]

Store(b, rec) ==
    [k \in DOMAIN b \cup {<<rec.bucket, rec.key>>} |->
        IF k = <<rec.bucket, rec.key>> THEN [body |-> rec.body, acl |-> rec.acl] ELSE b[k]]

\* one iteration of the loop over output_dir.iterdir(): put_object succeeds
PutArtifact(f) ==
    /\ pc = "upload_loop"
    /\ f \in listing
    /\ LET rec == PutRecord(basename(f), disk[f])
       IN  /\ puts' = Append(puts, rec)
           /\ bucket' = Store(bucket, rec)
    /\ listing' = listing \ {f}
    /\ trace' = Append(trace, "upload")
    /\ UNCHANGED <<granule_id, debug, run, pc, key_prefix, sanitized, disk>>
    /\ UNCHANGED transferVars

\* a failed upload that deletes what the run had uploaded (mutation)
PutArtifactFailRollback ==
    /\ pc = "upload_loop"
    /\ listing # {}
    /\ bucket' = [k \in {q \in DOMAIN bucket :
                            \A i \in 1..Len(puts) : q # <<puts[i].bucket, puts[i].key>>} |->
                     bucket[k]]
    /\ trace' = Append(trace, "error")
    /\ pc' = "failed"
    /\ UNCHANGED <<disk, granule_id, debug, run, key_prefix, listing, puts, sanitized>>
    /\ UNCHANGED transferVars

\* put_object of an artifact raises
PutArtifactFail ==
    /\ pc = "upload_loop"
    /\ listing # {}
    /\ trace' = Append(trace, "error")
    /\ pc' = "failed"
    /\ UNCHANGED <<disk>>
    /\ UNCHANGED pipelineVars
    /\ UNCHANGED transferVars

ManifestPath == PathJoin(OutputDir, ManifestFilename(key_prefix))

\* the loop is over: create_manifest writes the manifest into the output directory
CreateManifest ==
    /\ pc = "upload_loop"
    /\ listing = {}
    /\ disk' = WriteFile(disk, ManifestPath, Generated("manifest", run))
    /\ pc' = "upload_manifest"
    /\ UNCHANGED <<trace>>
    /\ UNCHANGED pipelineVars
    /\ UNCHANGED transferVars

\* hls_manifest.main raises
CreateManifestFail ==
    /\ pc = "upload_loop"
    /\ listing = {}
    /\ trace' = Append(trace, "error")
    /\ pc' = "failed"
    /\ UNCHANGED <<disk>>
    /\ UNCHANGED pipelineVars
    /\ UNCHANGED transferVars

\* the manifest is uploaded
PutManifest ==
    /\ pc = "upload_manifest"
    /\ LET rec == PutRecord(basename(ManifestPath), disk[ManifestPath])
       IN  /\ puts' = Append(puts, rec)
           /\ bucket' = Store(bucket, rec)
    /\ trace' = Append(trace, "manifest_upload")
    /\ pc' = "done"
    /\ UNCHANGED <<granule_id, debug, run, key_prefix, listing, sanitized, disk>>
    /\ UNCHANGED transferVars

\* put_object of the manifest raises
PutManifestFail ==
    /\ pc = "upload_manifest"
    /\ trace' = Append(trace, "error")
    /\ pc' = "failed"
    /\ UNCHANGED <<disk>>
    /\ UNCHANGED pipelineVars
    /\ UNCHANGED transferVars

\* the orchestrator runs the job again, on the same scratch directory
Rerun ==
    /\ pc \in {"done", "failed", "df_raised"}
    /\ run < MaxRuns
    /\ pc' = "main"
    /\ UNCHANGED <<disk, trace>>
    /\ UNCHANGED pipelineVars
    /\ UNCHANGED transferVars

Next ==
    \/ MainStart
    \/ PrepareInputs
    \/ DownloadFilesCall
    \/ \E i \in DOMAIN task : TaskStart(i)
    \/ \E i \in DOMAIN task : TaskOk(i)
    \/ \E i \in DOMAIN task : TaskFail(i)
    \/ JoinCancel
    \/ DownloadFilesRaise
    \/ DownloadFilesReturn
    \/ StripMetadataUrls
    \/ StripMetadataUrlsFail
    \/ GenerateViGranule
    \/ GenerateMetadata
    \/ CreateItem
    \/ GeneratorFail
    \/ UploadBegin
    \/ UploadKeyError
    \/ \E f \in listing : PutArtifact(f)
    \/ PutArtifactFail
    \/ CreateManifest
    \/ CreateManifestFail
    \/ PutManifest
    \/ PutManifestFail
    \/ Rerun

Spec == Init /\ [][Next]_vars


(***************************************************************************)
(* The two pure functions of the identifier, applied to identifiers built  *)
(* from every combination of a few prefixes, instruments, tiles and        *)
(* timestamps, and to a few strings of another shape.                      *)
(***************************************************************************)
\* an identifier whose tile holds the text HLS a second time
TwiceHLS == <<"H", "L", "S", ".", "L", "3", "0", ".", "T", "H", "L", "S", "0", "1", ".", "2", "0", "2", "5", "1", "0", "5", "T", "2", "3", "4", "9", "5", "1", ".", "v", "2", ".", "0">>
PrefixesG == {HLS, <<"H", "L", "X">>}
InstrumentsG == {L30, S30, <<"X", "3", "0">>}
TilesG == {<<"T", "5", "8", "U", "F", "F">>, <<"T", "5", "9", "V", "N", "H">>, <<"T", "0", "1", "A", "B", "C">>}
StampsG == {<<"2", "0", "2", "5", "1", "0", "5", "T", "2", "3", "4", "9", "5", "1">>, <<"2", "0", "2", "5", "1", "0", "5", "T", "2", "3", "4", "6", "4", "1">>, <<"2", "0", "2", "4", "3", "6", "6", "T", "0", "0", "0", "0", "0", "0">>}
GranuleIdsG ==
    {p \o Dot \o i \o Dot \o t \o Dot \o s \o <<".", "v", "2", ".", "0">> :
        p \in PrefixesG, i \in InstrumentsG, t \in TilesG, s \in StampsG}
    \cup {<<"H", "L", "S", ".", "L", "3", "0">>, <<"H", "L", "S", ".", "L", "3", "0", ".", "T", "5", "8", "U", "F", "F">>, <<"g", "r", "a", "n", "u", "l", "e">>, <<"H", "L", "S", ".", "S", "3", "0", ".", "T", "5", "9", "V", "N", "H", ".", "2", "0", "2", "5", "1", "0", "5", "T", "2", "3", "4", "6", "4", "1">>,
          TwiceHLS}

InitG ==
    /\ granule_id \in GranuleIdsG
    /\ pc = "g_start"
    /\ debug = FALSE
    /\ flaky = {}
    /\ run = 0
    /\ dst_dir = <<>>
    /\ srcs = <<>>
    /\ missing = <<>>
    /\ task = <<>>
    /\ firstErr = 0
    /\ err = 0
    /\ result = NoResult
    /\ disk = <<>>
    /\ disk0 = <<>>
    /\ nfetch = 0
    /\ calls = 0
    /\ prev = "none"
    /\ key_prefix = <<>>
    /\ listing = {}
    /\ puts = <<>>
    /\ bucket = <<>>
    /\ sanitized = {}
    /\ trace = <<>>

\* sources = granule_sources(granule_id)
ApplyGranuleSources ==
    /\ pc = "g_start"
    /\ srcs' = granule_sources(granule_id)
    /\ pc' = "g_resolved"
    /\ UNCHANGED <<dst_dir, missing, task, firstErr, err, result, disk, disk0, nfetch,
                   flaky, calls, prev, trace>>
    /\ UNCHANGED pipelineVars

\* key_prefix = output_key_prefix(granule_id), for an identifier from_string accepts
ApplyOutputKeyPrefix ==
    /\ pc = "g_resolved"
    /\ IsValidGranuleId(granule_id)
    /\ key_prefix' = output_key_prefix(granule_id)
    /\ pc' = "g_derived"
    /\ UNCHANGED <<granule_id, debug, run, listing, puts, bucket, sanitized, disk, trace>>
    /\ UNCHANGED transferVars

\* output_key_prefix(granule_id) raises
ApplyOutputKeyPrefixError ==
    /\ pc = "g_resolved"
    /\ ~IsValidGranuleId(granule_id)
    /\ pc' = "g_malformed"
    /\ UNCHANGED <<disk, trace>>
    /\ UNCHANGED pipelineVars
    /\ UNCHANGED transferVars

NextG ==
    \/ ApplyGranuleSources
    \/ ApplyOutputKeyPrefix
    \/ ApplyOutputKeyPrefixError

SpecG == InitG /\ [][NextG]_vars

(***************************************************************************)
(* Properties.                                                             *)
(***************************************************************************)

\* C1 (SpecT): when a call of download_files returned normally, the next call with
\* the same sources and directory finds nothing missing, invokes the downloader
\* zero times, never raises, and returns the empty pair
C1_SecondCallFetchesNothing ==
    (calls >= 2 /\ prev = "df_returned" /\ pc # "call_df") =>
        /\ missing = <<>>
        /\ task = <<>>
        /\ nfetch = 0
        /\ pc \in {"df_join", "df_returned"}
        /\ (pc = "df_returned" => result = << <<>>, <<>> >>)

\* a second call has returned after a first call that had fetched something
C1_Witness ==
    /\ calls = 2
    /\ prev = "df_returned"
    /\ pc = "df_returned"
    /\ \E p \in DOMAIN disk : disk[p].kind = "object"

\* C2 (SpecT): download_files has returned normally only when no future is pending
\* or running (all are done) and the local path of every source, fetched or
\* present beforehand, is on the disk; a call that did not return normally raised
\* the error of a fetch
C2_ForkJoin ==
    /\ pc = "df_returned" =>
          /\ \A i \in DOMAIN task : task[i] = "done"
          /\ \A i \in 1..Len(srcs) :
                Absolute(PathJoin(dst_dir, basename(srcs[i][2]))) \in DOMAIN disk
    /\ pc = "df_raised" => err \in DOMAIN task /\ task[err] = "failed"

\* a call that dispatched several fetches has returned normally
C2_Witness ==
    /\ pc = "df_returned"
    /\ Len(missing) >= 2

\* C5 as stated (SpecT): once the caller holds a fetch error nothing is waited for
\* (no fetch is still running), and the error raised is the one that happened first
C5_FailFastFirstError ==
    /\ pc = "df_shutdown" => Running = {}
    /\ pc = "df_raised" => err = firstErr

\* C5 amended (SpecT): download_files raises only after every fetch that had
\* started has finished and every fetch that had not started is cancelled, and
\* the error raised is that of the failed source that comes first in the input
\* order (every source before it was fetched), whichever failure happened first
C5_RaisesAfterJoinInInputOrder ==
    pc = "df_raised" =>
        /\ err \in DOMAIN task
        /\ task[err] = "failed"
        /\ \A j \in 1..(err - 1) : task[j] = "done"
        /\ \A j \in DOMAIN task : task[j] \in {"done", "failed", "cancelled"}
        /\ result = NoResult

\* a call has raised the error of a fetch that was not the first one to fail
C5_Witness ==
    /\ pc = "df_raised"
    /\ err # firstErr
    /\ Cardinality(Failed) >= 2

\* the text of key after its last "/" (all of key when it has none), stated by
\* what it is rather than computed
C9_IsBasename(key, b) ==
    /\ \A i \in 1..Len(b) : b[i] # "/"
    /\ \E a \in {SubSeq(key, 1, k) : k \in 0..Len(key)} :
          /\ key = a \o b
          /\ (a = <<>> \/ a[Len(a)] = "/")

\* the positions of srcs whose local path was not on the disk at the call
C9_MissingAt ==
    {i \in 1..Len(srcs) :
        \A b \in {SubSeq(srcs[i][2], k, Len(srcs[i][2])) : k \in 1..(Len(srcs[i][2]) + 1)} :
            C9_IsBasename(srcs[i][2], b) =>
                (IF b = <<>> THEN dst_dir ELSE dst_dir \o Slash \o b) \notin DOMAIN disk0}

\* C9 (SpecT): download_files returns the sources whose local path did not exist
\* when it was called, in input order, each paired by position with
\* dst_dir/basename(key); sources present at the call are not in the result
C9_TransferResult ==
    pc = "df_returned" =>
        /\ Len(result[1]) = Cardinality(C9_MissingAt)
        /\ Len(result[2]) = Len(result[1])
        /\ \E f \in [1..Len(result[1]) -> C9_MissingAt] :
              /\ \A i, j \in DOMAIN f : i < j => f[i] < f[j]
              /\ \A i \in DOMAIN f :
                    /\ result[1][i] = srcs[f[i]]
                    /\ \E b \in {SubSeq(srcs[f[i]][2], k, Len(srcs[f[i]][2])) :
                                    k \in 1..(Len(srcs[f[i]][2]) + 1)} :
                          /\ C9_IsBasename(srcs[f[i]][2], b)
                          /\ result[2][i] = dst_dir \o Slash \o b

\* a call over present and missing sources, two of them with the same basename,
\* has returned
C9_Witness ==
    /\ pc = "df_returned"
    /\ Len(result[1]) >= 2
    /\ Len(result[1]) < Len(srcs)
    /\ SrcCX \in Range(result[1])

\* the manifest's object key and the artifacts of the output directory
C3_ManifestKey == UploadKey(key_prefix, ManifestFilename(key_prefix))
C3_Artifacts == {p \in Iterdir(disk, OutputDir) : p # ManifestPath}

\* C3 (Spec): in a run of upload_outputs, a first run or a re-run, whenever a
\* put_object to the manifest's key has been issued every artifact of the output
\* directory was uploaded before it; and when the bucket holds this run's manifest
\* it holds every artifact of this run
C3_ManifestAfterArtifacts ==
    puts # <<>> =>
        /\ \A i \in 1..Len(puts) :
              puts[i].key = C3_ManifestKey =>
                  \A a \in C3_Artifacts :
                      \E j \in 1..(i - 1) : puts[j].key = UploadKey(key_prefix, basename(a))
        /\ LET k == <<OutputBucketName(debug), C3_ManifestKey>>
           IN  (k \in DOMAIN bucket /\ bucket[k].body = Generated("manifest", run)) =>
                   \A a \in C3_Artifacts :
                       /\ <<OutputBucketName(debug), UploadKey(key_prefix, basename(a))>>
                              \in DOMAIN bucket
                       /\ bucket[<<OutputBucketName(debug),
                                   UploadKey(key_prefix, basename(a))>>].body = disk[a]

\* the files directly in the output directory, by their paths
C4_OutputFiles ==
    {p \in DOMAIN disk :
        /\ Len(p) > Len(OutputDir) + 1
        /\ SubSeq(p, 1, Len(OutputDir) + 1) = OutputDir \o Slash
        /\ \A i \in (Len(OutputDir) + 2)..Len(p) : p[i] # "/"}

\* C4 (Spec): with N files in the output directory at the call and no upload
\* failing, upload_outputs issues N + 1 put_object calls: one for each file, each
\* a different one, and then one for the manifest this run generated, which is
\* the last call
C4_UploadCount ==
    /\ pc = "upload_loop" =>
          /\ Len(puts) + Cardinality(listing) = Cardinality(C4_OutputFiles)
          /\ \A i, j \in 1..Len(puts) : i # j => puts[i].key # puts[j].key
          /\ \A i \in 1..Len(puts) :
                \E p \in C4_OutputFiles \ listing :
                    puts[i].key = UploadKey(key_prefix, basename(p))
    /\ pc = "done" =>
          LET n == Len(puts) - 1
              stale == \E i \in 1..n : puts[i].key = C3_ManifestKey
          IN  /\ n = Cardinality(C4_OutputFiles) - (IF stale THEN 0 ELSE 1)
              /\ puts[n + 1].key = C3_ManifestKey
              /\ puts[n + 1].body = Generated("manifest", run)
              /\ \A i \in 1..n : puts[i].body # Generated("manifest", run)

\* a publish of several files has completed
C4_Witness ==
    /\ pc = "done"
    /\ Len(puts) > 2

\* C6 (Spec): for an identifier that is not of the form HLS.<INSTR>.<TILE>.<TS>.v<VER>
\* with a known instrument, no locator list is produced, no fetch is started and
\* nothing is uploaded
C6_MalformedRejected ==
    ~IsValidGranuleId(granule_id) =>
        /\ srcs = <<>>
        /\ nfetch = 0
        /\ puts = <<>>

\* the suffixes the claim lists for each instrument, in order
C7_SuffixesL30 ==
    << <<".", "B", "0", "2", ".", "t", "i", "f">>, <<".", "B", "0", "3", ".", "t", "i", "f">>, <<".", "B", "0", "4", ".", "t", "i", "f">>, <<".", "B", "0", "5", ".", "t", "i", "f">>, <<".", "B", "0", "6", ".", "t", "i", "f">>, <<".", "B", "0", "7", ".", "t", "i", "f">>,
       <<".", "F", "m", "a", "s", "k", ".", "t", "i", "f">>, <<".", "c", "m", "r", ".", "x", "m", "l">> >>
C7_SuffixesS30 ==
    << <<".", "B", "0", "2", ".", "t", "i", "f">>, <<".", "B", "0", "3", ".", "t", "i", "f">>, <<".", "B", "0", "4", ".", "t", "i", "f">>, <<".", "B", "8", "A", ".", "t", "i", "f">>, <<".", "B", "1", "1", ".", "t", "i", "f">>, <<".", "B", "1", "2", ".", "t", "i", "f">>,
       <<".", "F", "m", "a", "s", "k", ".", "t", "i", "f">>, <<".", "c", "m", "r", ".", "x", "m", "l">> >>

\* C7 (SpecG): for a valid identifier g of instrument L30 (S30), granule_sources(g)
\* is the jpg in lp-prod-public and then, in lp-prod-protected, the six band tifs
\* of the instrument in declaration order, Fmask.tif and cmr.xml, every key being
\* {collection}/g/g{suffix} with collection HLSL30.020 (HLSS30.020): nine locators
C7_SourceListShape ==
    (pc # "g_start" /\ IsValidGranuleId(granule_id)) =>
        LET isL == Split(granule_id, ".")[2] = L30
            coll == IF isL THEN <<"H", "L", "S", "L", "3", "0", ".", "0", "2", "0">> ELSE <<"H", "L", "S", "S", "3", "0", ".", "0", "2", "0">>
            sufs == IF isL THEN C7_SuffixesL30 ELSE C7_SuffixesS30
            stem == coll \o Slash \o granule_id \o Slash \o granule_id
        IN  /\ Len(srcs) = Len(sufs) + 1
            /\ srcs[1] = << <<"l", "p", "-", "p", "r", "o", "d", "-", "p", "u", "b", "l", "i", "c">>, stem \o <<".", "j", "p", "g">> >>
            /\ \A i \in 1..Len(sufs) :
                  srcs[i + 1] = << <<"l", "p", "-", "p", "r", "o", "d", "-", "p", "r", "o", "t", "e", "c", "t", "e", "d">>, stem \o sufs[i] >>
            /\ \A i \in 2..Len(srcs) : srcs[i][1] # srcs[1][1]

\* granule_sources was applied to a valid S30 identifier
C7_Witness ==
    /\ pc = "g_resolved"
    /\ IsValidGranuleId(granule_id)
    /\ Split(granule_id, ".")[2] = S30
    /\ Len(srcs) > 1

\* the run is past the call of download_files, which found the input directory
\* without any file, for the granule of the scenario
C8_Scenario ==
    /\ granule_id = ExampleL30
    /\ pc \notin {"main", "prepare", "call_df"}
    /\ Iterdir(disk0, InputDir) = {}

\* C8 as stated (Spec): the prepare stage of HLS.L30.T58UFF.2025105T234951.v2.0 on
\* an empty directory has invoked the downloader 8 times when the cmr.xml is
\* sanitized
C8_EightFetches ==
    (C8_Scenario /\ sanitized # {}) => nfetch = 8

\* C8 amended (Spec): that prepare stage invokes the downloader exactly 9 times,
\* once for each of the 9 sources, and then sanitizes the one cmr.xml
C8_NineFetches ==
    C8_Scenario =>
        /\ Len(missing) = 9
        /\ nfetch <= 9
        /\ pc = "df_returned" => nfetch = 9
        /\ sanitized # {} =>
              /\ nfetch = 9
              /\ sanitized = {InputDir \o Slash \o ExampleL30 \o <<".", "c", "m", "r", ".", "x", "m", "l">>}

\* the cmr.xml of the scenario's granule was sanitized after the fetches
C8_Witness ==
    /\ C8_Scenario
    /\ sanitized # {}
    /\ nfetch = 9

\* the stage events of a run that completes, in order
C10_Stages ==
    <<"resolve", "transfer", "sanitize", "raster", "metadata", "stac", "upload",
      "manifest_upload">>
C10_Rank(e) == CHOOSE i \in 1..Len(C10_Stages) : C10_Stages[i] = e

\* C10 (Spec): the events of a run happen in the order resolve, all fetches
\* complete, sanitize, raster, metadata, STAC, artifact uploads, manifest upload,
\* each after the one before it; an error ends the run (nothing follows it, and
\* main is then in its failed state), and the effects on disk and bucket are those
\* of the events so far, so no later stage acted
C10_StageOrder ==
    /\ \A i \in 1..Len(trace) :
          IF trace[i] = "error" THEN i = Len(trace)
          ELSE IF i = 1 THEN trace[i] = "resolve"
          ELSE \/ C10_Rank(trace[i]) = C10_Rank(trace[i - 1]) + 1
               \/ trace[i] = "upload" /\ trace[i - 1] = "upload"
    /\ ("error" \in Range(trace)) <=> (pc \in {"failed", "df_raised"} \/ (pc = "main" /\ trace # <<>> /\ trace[Len(trace)] = "error"))
    /\ pc \notin {"main", "prepare", "call_df"} =>
          /\ (\E i \in DOMAIN task : task[i] \in {"pending", "running"}) =>
                trace = <<"resolve">>
          /\ "transfer" \in Range(trace) => \A i \in DOMAIN task : task[i] = "done"
          /\ sanitized # {} => "sanitize" \in Range(trace)
          /\ Len(puts) = Cardinality({i \in 1..Len(trace) :
                                         trace[i] \in {"upload", "manifest_upload"}})
          /\ \A p \in DOMAIN disk :
                /\ disk[p] = Generated("raster", run) => "raster" \in Range(trace)
                /\ disk[p] = Generated("cmr", run) => "metadata" \in Range(trace)
                /\ disk[p] = Generated("stac", run) => "stac" \in Range(trace)
                /\ disk[p] = Generated("manifest", run) =>
                       ("stac" \in Range(trace) /\ listing = {})

\* a run went through every stage and uploaded its manifest
C10_Witness ==
    /\ pc = "done"
    /\ trace[Len(trace)] = "manifest_upload"
    /\ nfetch > 1

\* C11 (Spec): every put_object of a run, artifact or manifest, goes to the bucket
\* main passes, under the key output_key_prefix(granule_id) + "/" + the file's
\* name, and all carry one ACL: public-read when the debug mode is set, private
\* otherwise
C11_DestinationAndAcl ==
    puts # <<>> =>
        LET keys == {output_key_prefix(granule_id) \o Slash
                         \o SubSeq(p, Len(OutputDir) + 2, Len(p)) : p \in C4_OutputFiles}
        IN  \A i \in 1..Len(puts) :
                /\ puts[i].bucket = (IF debug THEN "DEBUG_BUCKET" ELSE "OUTPUT_BUCKET")
                /\ puts[i].key \in keys
                /\ puts[i].acl = (IF debug THEN "public-read" ELSE "private")
                /\ \A j \in 1..Len(puts) : puts[j].acl = puts[i].acl

\* a run in debug mode has uploaded its artifacts and its manifest
C11_Witness ==
    /\ debug
    /\ pc = "done"
    /\ Len(puts) > 2

\* C12 (Spec): no step ever removes an object from the bucket; a failed put_object
\* changes nothing in the bucket and ends the run, after which no upload is
\* issued; when an artifact upload failed no manifest of the run was generated or
\* uploaded, and the objects uploaded before the failure are in the bucket
C12_FailFastNoRollback ==
    [][ /\ \A k \in DOMAIN bucket : k \in DOMAIN bucket'
        /\ pc = "failed" => (pc' = "main" /\ bucket' = bucket /\ puts' = puts)
        /\ (pc \in {"upload_loop", "upload_manifest"} /\ pc' = "failed") =>
              (bucket' = bucket /\ puts' = puts /\ disk' = disk)
        /\ pc' = "failed" =>
              /\ \A i \in 1..Len(puts') :
                    /\ <<puts'[i].bucket, puts'[i].key>> \in DOMAIN bucket'
                    /\ \E j \in i..Len(puts') :
                          /\ puts'[j].key = puts'[i].key
                          /\ bucket'[<<puts'[i].bucket, puts'[i].key>>].body = puts'[j].body
              /\ listing' # {} =>
                    /\ \A p \in DOMAIN disk' : disk'[p] # Generated("manifest", run')
                    /\ \A i \in 1..Len(puts') : puts'[i].body # Generated("manifest", run')
      ]_vars

\* an artifact upload failed after other artifacts had been uploaded
C12_Witness ==
    /\ pc = "failed"
    /\ listing # {}
    /\ puts # <<>>

\* the position of the n-th "." of the identifier
C13_DotAt(g, n) ==
    CHOOSE i \in 1..Len(g) :
        g[i] = "." /\ Cardinality({j \in 1..(i - 1) : g[j] = "."}) = n - 1

\* C13 (SpecG): for a valid identifier g, output_key_prefix(g) is
\* {instrument}_VI/data/{yyyyddd}/{vi_granule_id}: the instrument token, the first
\* 7 characters of the acquisition timestamp, and g with its first HLS (its first
\* three characters) replaced by HLS-VI and nothing else changed; the L30 example
\* gives L30_VI/data/2025105/HLS-VI.L30.T58UFF.2025105T234951.v2.0
C13_KeyPrefix ==
    pc = "g_derived" =>
        LET g == granule_id
            instr == SubSeq(g, C13_DotAt(g, 1) + 1, C13_DotAt(g, 2) - 1)
            stamp == SubSeq(g, C13_DotAt(g, 3) + 1, C13_DotAt(g, 4) - 1)
        IN  /\ key_prefix = instr \o <<"_", "V", "I", "/", "d", "a", "t", "a", "/">> \o SubSeq(stamp, 1, 7) \o <<"/">>
                                \o <<"H", "L", "S", "-", "V", "I">> \o SubSeq(g, 4, Len(g))
            /\ g = ExampleL30 =>
                  key_prefix = <<"L", "3", "0", "_", "V", "I", "/", "d", "a", "t", "a", "/", "2", "0", "2", "5", "1", "0", "5", "/", "H", "L", "S", "-", "V", "I", ".", "L", "3", "0", ".", "T", "5", "8", "U", "F", "F", ".", "2", "0", "2", "5", "1", "0", "5", "T", "2", "3", "4", "9", "5", "1", ".", "v", "2", ".", "0">>
            /\ g = ExampleS30 =>
                  key_prefix = <<"S", "3", "0", "_", "V", "I", "/", "d", "a", "t", "a", "/", "2", "0", "2", "5", "1", "0", "5", "/", "H", "L", "S", "-", "V", "I", ".", "S", "3", "0", ".", "T", "5", "9", "V", "N", "H", ".", "2", "0", "2", "5", "1", "0", "5", "T", "2", "3", "4", "6", "4", "1", ".", "v", "2", ".", "0">>

\* the prefix of an identifier that holds HLS twice was derived
C13_Witness ==
    /\ pc = "g_derived"
    /\ granule_id = TwiceHLS
    /\ key_prefix # <<>>

\* C15 (SpecT): the fetch tasks dispatched in one call of download_files have
\* pairwise distinct destination paths, so no two of them run on one local file
\* at the same time
C15_DisjointPaths ==
    /\ \A i, j \in DOMAIN task : i # j => missing[i][2] # missing[j][2]
    /\ \A i, j \in Running : i # j => missing[i][2] # missing[j][2]

\* C16 (SpecT): during and after a call of download_files, returned or raised, no
\* fetch task exists for a source whose local path was there at the call, every
\* file that was there is still there with the same contents, and what has
\* appeared are fetched objects only (no directory is created)
C16_PresentUntouched ==
    pc # "call_df" =>
        /\ \A i \in DOMAIN task : missing[i][2] \notin DOMAIN disk0
        /\ nfetch <= Len(missing)
        /\ \A p \in DOMAIN disk0 : p \in DOMAIN disk /\ disk[p] = disk0[p]
        /\ \A p \in DOMAIN disk \ DOMAIN disk0 :
              /\ disk[p].kind = "object"
              /\ \E i \in DOMAIN task : missing[i][2] = p /\ task[i] = "done"

\* a call that found a file present fetched another one and then raised
C16_Witness ==
    /\ pc = "df_raised"
    /\ \E p \in DOMAIN disk0 : disk0[p] = OldFile
    /\ \E p \in DOMAIN disk : disk[p].kind = "object"

\* C18 as stated (Spec): the fetch tasks running at one moment are never more
\* than the hardware threads of the machine
C18_OnePerHardwareThread ==
    Cardinality(Running) <= Cpus

\* C18 amended (Spec): one fetch task is created per missing source, the downloader
\* is invoked at most once per task, and the tasks running at one moment are never
\* more than the pool's size, which is min(32, hardware threads + 4)
C18_BoundedPool ==
    /\ pc \in {"df_join", "df_shutdown", "df_raised", "df_returned"} =>
          /\ DOMAIN task = 1..Len(missing)
          /\ nfetch = Cardinality({i \in DOMAIN task : task[i] \in {"running", "done", "failed"}})
    /\ Cardinality(Running) <= (IF Cpus + 4 < 32 THEN Cpus + 4 ELSE 32)

\* the pool is full while missing sources wait for a worker
C18_Witness ==
    /\ Cardinality(Running) = MaxWorkers
    /\ Pending # {}

\* the final path component of a key
C19_Name(key) ==
    CHOOSE b \in {SubSeq(key, k, Len(key)) : k \in 1..(Len(key) + 1)} :
        C9_IsBasename(key, b)

\* C19 (SpecG): the locators of granule_sources for one identifier have pairwise
\* distinct basenames, so their local paths in the input directory are pairwise
\* distinct, all of them are missing when the directory holds no file, and the
\* path prepare_inputs hands to the sanitizer is the local path of one of them
C19_DistinctLocalPaths ==
    pc # "g_start" =>
        LET dsts == Dsts(srcs, InputDir)
            empty == [p \in {InputDir} |-> Directory]
        IN  /\ \A i, j \in 1..Len(srcs) :
                  i # j => /\ dsts[i] # dsts[j]
                           /\ C19_Name(srcs[i][2]) # C19_Name(srcs[j][2])
            /\ Len(Missing(srcs, InputDir, empty)) = Len(srcs)
            /\ Absolute(HlsCmrPath(InputDir, granule_id)) \in Range(dsts)
            /\ Absolute(HlsCmrPath(InputDir, granule_id))
                   = InputDir \o Slash \o granule_id \o <<".", "c", "m", "r", ".", "x", "m", "l">>

\* granule_sources was applied to an identifier of the S30 branch
C19_Witness ==
    /\ pc = "g_resolved"
    /\ Len(srcs) > 2
    /\ ~StartsWith(granule_id, HLS_L30)

\* C20 (Spec): an object is put with public-read only when DEBUG_BUCKET is set, and
\* then every put of the run goes to the override bucket; nothing is put to or
\* held by the normal bucket with public-read, nor the override bucket with
\* private
C20_AclMatchesBucket ==
    /\ \A i \in 1..Len(puts) :
          /\ puts[i].acl = "public-read" => debug
          /\ debug => puts[i].bucket = "DEBUG_BUCKET"
          /\ puts[i].bucket = "OUTPUT_BUCKET" => puts[i].acl = "private"
          /\ puts[i].bucket = "DEBUG_BUCKET" => puts[i].acl = "public-read"
    /\ \A k \in DOMAIN bucket :
          /\ k[1] = "OUTPUT_BUCKET" => bucket[k].acl = "private"
          /\ k[1] = "DEBUG_BUCKET" => bucket[k].acl = "public-read"

\* a second run in debug mode has uploaded to the override bucket
C20_Witness ==
    /\ debug
    /\ run = 2
    /\ puts # <<>>

(***************************************************************************)
(* strip_metadata_urls on one document.  The text of an XML file is the    *)
(* sequence of its tags and character data; <n/> is one tag.               *)
(***************************************************************************)
\* the children of the root a document is built from, at most
MaxElems == 3

Open(n) == <<"open", n>>
Close(n) == <<"close", n>>
SelfClosed(n) == <<"selfclosed", n>>
Text(v) == <<"text", v>>

\* the contents of a file that holds XML text
XmlFile(doc) == [kind |-> "xml", src |-> doc]

\* the events of the text: <n/> is an element without children, as <n></n> is
RECURSIVE Events(_)
Events(toks) ==
    IF toks = <<>> THEN <<>>
    ELSE LET t == Head(toks)
         IN  (IF t[1] = "selfclosed" THEN <<Open(t[2]), Close(t[2])>> ELSE <<t>>)
                 \o Events(Tail(toks))

\* whether the events close the open elements of stack (innermost first) in
\* order, with nothing outside the one root element
RECURSIVE Nesting(_, _)
Nesting(ev, stack) ==
    IF ev = <<>> THEN stack = <<>>
    ELSE LET t == Head(ev)
         IN  CASE t[1] = "open" -> Nesting(Tail(ev), <<t[2]>> \o stack)
               [] t[1] = "close" ->
                     /\ stack # <<>>
                     /\ Head(stack) = t[2]
                     /\ (Len(stack) = 1 => Tail(ev) = <<>>)
                     /\ Nesting(Tail(ev), Tail(stack))
               [] OTHER -> stack # <<>> /\ Nesting(Tail(ev), stack)

\* whether etree.parse accepts the text
WellFormed(toks) == toks # <<>> /\ Nesting(Events(toks), <<>>)

\* etree.parse(cmr_xml): the tree, as the events of its elements in document order
Parse(toks) == Events(toks)

\* the elements that hold a reference URL
UrlElements == {"URL"}

\* the spelling of the checksum algorithm the granule schema does not permit
NonCanonical == "SHA512"

\* whether the element that starts at the head of ev is one the transform drops
Dropped(ev) ==
    \/ Head(ev)[2] \in UrlElements
    \/ /\ Head(ev)[2] = "Algorithm"
       /\ Len(ev) >= 2
       /\ ev[2] = Text(NonCanonical)

\* strip-urls.xslt: the tree is copied except for the dropped elements, which
\* go with all they contain; skip is the depth inside a dropped element
RECURSIVE Transform(_, _)
Transform(ev, skip) ==
    IF ev = <<>> THEN <<>>
    ELSE LET t == Head(ev)
         IN  IF skip > 0
             THEN Transform(Tail(ev), CASE t[1] = "open" -> skip + 1
                                        [] t[1] = "close" -> skip - 1
                                        [] OTHER -> skip)
             ELSE IF t[1] = "open" /\ Dropped(ev)
                  THEN Transform(Tail(ev), 1)
                  ELSE <<t>> \o Transform(Tail(ev), 0)

\* tree.write(): an element without children is written as <n/> (mutation)
RECURSIVE WriteCollapsed(_)
WriteCollapsed(ev) ==
    IF ev = <<>> THEN <<>>
    ELSE IF Len(ev) >= 2 /\ ev[1][1] = "open" /\ ev[2] = Close(ev[1][2])
         THEN <<SelfClosed(ev[1][2])>> \o WriteCollapsed(SubSeq(ev, 3, Len(ev)))
         ELSE <<Head(ev)>> \o WriteCollapsed(Tail(ev))

\* tree.write_c14n(): every element is written with its start tag and its end
\* tag
RECURSIVE WriteC14n(_)
WriteC14n(ev) ==
    IF ev = <<>> THEN <<>>
    ELSE LET t == Head(ev)
         IN  (CASE t[1] = "open" -> <<Open(t[2])>>
                [] t[1] = "close" -> <<Close(t[2])>>
                [] OTHER -> <<Text(t[2])>>) \o WriteC14n(Tail(ev))

\* the elements the documents are built from
UrlElem == <<Open("URL"), Text("https://e/x"), Close("URL")>>
UrlHolder ==
    <<Open("OnlineAccessURL"), Open("URL"), Text("https://e/y"), Close("URL"),
      Close("OnlineAccessURL")>>
UrlCollapsed == <<SelfClosed("URL")>>
ChecksumSHA512 ==
    <<Open("Checksum"), Open("Algorithm"), Text("SHA512"), Close("Algorithm"),
      Close("Checksum")>>
ChecksumSHA256 ==
    <<Open("Checksum"), Open("Algorithm"), Text("SHA-256"), Close("Algorithm"),
      Close("Checksum")>>
EmptyCollapsed == <<SelfClosed("Orbit")>>
EmptyExplicit == <<Open("Orbit"), Close("Orbit")>>
TextElem == <<Open("GranuleUR"), Text("ur"), Close("GranuleUR")>>
Elems ==
    {UrlElem, UrlHolder, UrlCollapsed, ChecksumSHA512, ChecksumSHA256, EmptyCollapsed,
     EmptyExplicit, TextElem}

RECURSIVE Concat(_)
Concat(ss) == IF ss = <<>> THEN <<>> ELSE Head(ss) \o Concat(Tail(ss))

\* the documents with a Granule root and at most MaxElems children
Documents ==
    {<<Open("Granule")>> \o Concat(cs) \o <<Close("Granule")>> :
        cs \in SeqsUpTo(Elems, MaxElems)}

\* texts that are not XML documents: an empty file, an element left open, end
\* tags out of order, a second root, text outside the root
MalformedTexts ==
    {<<>>,
     <<Open("Granule"), Open("URL"), Text("https://e/x")>>,
     <<Open("Granule"), Open("URL"), Close("Granule"), Close("URL")>>,
     <<Open("Granule"), Close("Granule"), SelfClosed("URL")>>,
     <<Text("SHA512")>>}

\* the metadata file strip_metadata_urls is called on
CmrXml == HlsCmrPath(InputDir, ExampleL30)

InitX ==
    /\ granule_id = ExampleL30
    /\ \E doc \in Documents \cup MalformedTexts :
          disk = [p \in {InputDir, CmrXml} |->
                     IF p = CmrXml THEN XmlFile(doc) ELSE Directory]
    /\ disk0 = disk
    /\ pc = "x_start"
    /\ srcs = <<>>
    /\ dst_dir = InputDir
    /\ flaky = {}
    /\ calls = 1
    /\ prev = "none"
    /\ missing = <<>>
    /\ task = <<>>
    /\ firstErr = 0
    /\ err = 0
    /\ nfetch = 0
    /\ result = NoResult
    /\ debug = FALSE
    /\ run = 1
    /\ key_prefix = <<>>
    /\ listing = {}
    /\ puts = <<>>
    /\ bucket = <<>>
    /\ sanitized = {}
    /\ trace = <<>>

\* transform(etree.parse(cmr_xml, None)).write_c14n(cmr_xml)
ApplyStripMetadataUrls ==
    /\ pc = "x_start"
    /\ WellFormed(disk[CmrXml].src)
    /\ disk' = WriteFile(disk, CmrXml,
                         XmlFile(WriteC14n(Transform(Parse(disk[CmrXml].src), 0))))
    /\ sanitized' = sanitized \cup {CmrXml}
    /\ pc' = "x_written"
    /\ UNCHANGED <<granule_id, debug, run, key_prefix, listing, puts, bucket, trace>>
    /\ UNCHANGED transferVars

\* etree.parse raises XMLSyntaxError: nothing is written
ApplyStripMetadataUrlsError ==
    /\ pc = "x_start"
    /\ ~WellFormed(disk[CmrXml].src)
    /\ trace' = Append(trace, "error")
    /\ pc' = "x_failed"
    /\ UNCHANGED disk
    /\ UNCHANGED pipelineVars
    /\ UNCHANGED transferVars

NextX ==
    \/ ApplyStripMetadataUrls
    \/ ApplyStripMetadataUrlsError

SpecX == InitX /\ [][NextX]_vars

\* C14 (SpecX): a well-formed document is replaced, at the same path, by one with
\* no URL element, no SHA512 and no self-closing tag, an element without content
\* being a start tag followed by its end tag; a text that is not well-formed is
\* never rewritten: the call raises and the file is left as it was
C14_Sanitized ==
    /\ DOMAIN disk = DOMAIN disk0
    /\ pc = "x_written" =>
          LET out == disk[CmrXml].src
          IN  /\ disk0[CmrXml].src \notin MalformedTexts
              /\ \A i \in 1..Len(out) :
                    /\ out[i][1] \in {"open", "close", "text"}
                    /\ out[i][1] \in {"open", "close"} => out[i][2] # "URL"
                    /\ out[i][1] = "text" => out[i][2] # "SHA512"
    /\ pc = "x_failed" =>
          /\ disk0[CmrXml].src \in MalformedTexts
          /\ disk = disk0
          /\ trace = <<"error">>
    /\ pc = "x_start" => disk = disk0

\* a document with a URL element in a holder, a SHA512 checksum and a
\* self-closing element was rewritten, the emptied holder and the empty element
\* as start tag and end tag
C14_Witness ==
    /\ pc = "x_written"
    /\ disk0[CmrXml].src =
           <<Open("Granule")>> \o UrlHolder \o ChecksumSHA512 \o EmptyCollapsed
               \o <<Close("Granule")>>
    /\ disk[CmrXml].src =
           <<Open("Granule"), Open("OnlineAccessURL"), Close("OnlineAccessURL"),
             Open("Checksum"), Close("Checksum"), Open("Orbit"), Close("Orbit"),
             Close("Granule")>>

(***************************************************************************)
(* download_files with the downloader of bootstrap-minio.py: transfer gets *)
(* the object over HTTPS into the local file and puts the file into the    *)
(* MinIO bucket of the same name.                                          *)
(***************************************************************************)
\* a file that open(dst, "wb") created and the chunks written so far
Partial(src) == [kind |-> "partial", src |-> src]

\* s3.put_object(Bucket=bucket, Key=key, Body=body) on the MinIO server
MinioRecord(src, body) ==
    [bucket |-> src[1], key |-> src[2], acl |-> "private", body |-> body]

\* the file at dst after http_download returned: the one that was there, or
\* else the object
Downloaded(fs, src, dst) == IF dst \in DOMAIN fs THEN fs[dst] ELSE Object(src)

\* transfer returns: http_download left the file alone or wrote all chunks,
\* and the file was put into the MinIO bucket
TransferOk(i) ==
    /\ task[i] = "running"
    /\ LET src == missing[i][1]
           dst == missing[i][2]
           body == Downloaded(disk, src, dst)
       IN  /\ disk' = WriteFile(disk, dst, body)
           /\ bucket' = Store(bucket, MinioRecord(src, body))
    /\ task' = [task EXCEPT ![i] = "done"]
    /\ UNCHANGED <<pc, dst_dir, srcs, missing, firstErr, err, result, disk0, nfetch,
                   flaky, calls, prev, trace>>
    /\ UNCHANGED <<granule_id, debug, run, key_prefix, listing, puts, sanitized>>

\* session.get or r.raise_for_status() raises: the file was not opened
HttpStatusFail(i) ==
    /\ task[i] = "running"
    /\ missing[i][1] \in flaky
    /\ missing[i][2] \notin DOMAIN disk
    /\ task' = [task EXCEPT ![i] = "failed"]
    /\ firstErr' = IF firstErr = 0 THEN i ELSE firstErr
    /\ UNCHANGED <<pc, dst_dir, srcs, missing, err, result, disk, disk0, nfetch,
                   flaky, calls, prev, trace>>
    /\ UNCHANGED pipelineVars

\* r.iter_content raises after open(dst, "wb"): the file stays as far as it
\* was written
HttpStreamFail(i) ==
    /\ task[i] = "running"
    /\ missing[i][1] \in flaky
    /\ missing[i][2] \notin DOMAIN disk
    /\ disk' = WriteFile(disk, missing[i][2], Partial(missing[i][1]))
    /\ task' = [task EXCEPT ![i] = "failed"]
    /\ firstErr' = IF firstErr = 0 THEN i ELSE firstErr
    /\ UNCHANGED <<pc, dst_dir, srcs, missing, err, result, disk0, nfetch,
                   flaky, calls, prev, trace>>
    /\ UNCHANGED pipelineVars

\* http_download returned and s3.put_object raises
TransferPutFail(i) ==
    /\ task[i] = "running"
    /\ missing[i][1] \in flaky
    /\ disk' = WriteFile(disk, missing[i][2],
                         Downloaded(disk, missing[i][1], missing[i][2]))
    /\ task' = [task EXCEPT ![i] = "failed"]
    /\ firstErr' = IF firstErr = 0 THEN i ELSE firstErr
    /\ UNCHANGED <<pc, dst_dir, srcs, missing, err, result, disk0, nfetch,
                   flaky, calls, prev, trace>>
    /\ UNCHANGED pipelineVars

InitH == InitT

NextH ==
    \/ DownloadFilesCall
    \/ \E i \in DOMAIN task : TaskStart(i)
    \/ \E i \in DOMAIN task : TransferOk(i)
    \/ \E i \in DOMAIN task : HttpStatusFail(i)
    \/ \E i \in DOMAIN task : HttpStreamFail(i)
    \/ \E i \in DOMAIN task : TransferPutFail(i)
    \/ JoinCancel
    \/ DownloadFilesRaise
    \/ DownloadFilesReturn
    \/ CallAgain

SpecH == InitH /\ [][NextH]_vars

\* C17 (SpecH): a fetch that failed has left no incomplete file at its local
\* path, and every file a call of download_files found present, and so did not
\* fetch, holds a complete object
C17_CompleteOrFail ==
    /\ \A i \in Failed :
          missing[i][2] \in DOMAIN disk => disk[missing[i][2]].kind # "partial"
    /\ pc # "call_df" =>
          \A k \in 1..Len(srcs) :
              LET dst == Dsts(srcs, dst_dir)[k]
              IN  dst \in DOMAIN disk0 => disk0[dst].kind # "partial"

=============================================================================
